---------------------------- MODULE Spec2Model ----------------------------
(***************************************************************************)
(* Digest and digest-item codec of core/sr-primitives/src/generic/digest.rs *)
(*                                                                         *)
(* Bytes are naturals 0..255, byte buffers and vectors are sequences.      *)
(* Option<T> is a record: None is [some |-> FALSE], Some(x) is             *)
(* [some |-> TRUE, val |-> x].  A decode over an Input cursor returns      *)
(* [some |-> TRUE, val |-> x, rest |-> unread bytes] or DecodeFail.        *)
(* A reference (&T) is modelled by the value it refers to, so a            *)
(* DigestItemRef is a record of the same shape as a DigestItem.            *)
(* The type parameters are those of the module's own test:                 *)
(* Hash = AuthorityId = 32-bit integer, SealSignature = H512.              *)
(***************************************************************************)
EXTENDS Integers, Sequences, FiniteSets, TLC

VARIABLES
    op,      \* name of the last operation applied
    item,    \* the DigestItem the last item-level operation was applied to
    bytes,   \* byte buffer: output of encode, or input of a raw decode
    suffix,  \* bytes that followed the encoded item in the decode input
    res,     \* result of the last decode
    ret,     \* result of the last accessor / pop / serialize
    rret,    \* result of the same operation applied to the DigestItemRef
    calls,   \* functions entered by the last operation (call chain)
    logs     \* Digest.logs

vars == <<op, item, bytes, suffix, res, ret, rret, calls, logs>>

---------------------------------------------------------------------------
(* Bounds of the model *)

MaxBytesLen == 3
MaxAuthorities == 2
MaxRawLen == 5
MaxLogs == 4

(* Widths fixed by the program's types *)
EngineIdWidth == 4
SigWidth == 64
LongLen == 64

---------------------------------------------------------------------------
(* Helpers on sequences and options *)

None == [some |-> FALSE]
Some(x) == [some |-> TRUE, val |-> x]

DecodeFail == [some |-> FALSE]
DecodeOk(x, r) == [some |-> TRUE, val |-> x, rest |-> r]

Take(s, n) == SubSeq(s, 1, n)
Drop(s, n) == SubSeq(s, n + 1, Len(s))
Front(s) == SubSeq(s, 1, Len(s) - 1)
Zeros(n) == [i \in 1..n |-> 0]
BoundedSeqs(S, n) == UNION {[1..k -> S] : k \in 0..n}

---------------------------------------------------------------------------
(* Field-level codec (crate::codec): little-endian integers, compact       *)
(* length prefix, raw fixed-width arrays, vectors, tuples by concatenation *)
(* 32-bit values are exercised below 2^31 (the checker's integer range):   *)
(* the inputs keep the top byte of every decoded integer under 128.        *)

U32_encode(n) ==
    <<n % 256, (n \div 256) % 256, (n \div 65536) % 256, (n \div 16777216) % 256>>

U32_decode(input) ==
    IF Len(input) < 4 THEN DecodeFail
    ELSE DecodeOk(input[1] + 256 * input[2] + 65536 * input[3]
                      + 16777216 * input[4],
                  Drop(input, 4))

U16_decode(input) ==
    IF Len(input) < 2 THEN DecodeFail
    ELSE DecodeOk(input[1] + 256 * input[2], Drop(input, 2))

\* Compact<u32>: the length prefix of a vector
CompactLen_encode(n) ==
    IF n < 64 THEN <<4 * n>>
    ELSE IF n < 16384 THEN <<(4 * n + 1) % 256, (4 * n + 1) \div 256>>
    ELSE IF n < 1073741824 THEN U32_encode(4 * n + 2)
    ELSE <<3>> \o U32_encode(n)

CompactLen_decode(input) ==
    IF Len(input) < 1 THEN DecodeFail
    ELSE LET prefix == input[1] IN
         CASE prefix % 4 = 0 -> DecodeOk(prefix \div 4, Drop(input, 1))
           [] prefix % 4 = 1 ->
                LET r == U16_decode(input) IN
                IF r.some THEN DecodeOk(r.val \div 4, r.rest) ELSE DecodeFail
           [] prefix % 4 = 2 ->
                LET r == U32_decode(input) IN
                IF r.some THEN DecodeOk(r.val \div 4, r.rest) ELSE DecodeFail
           [] OTHER ->
                IF prefix \div 4 = 0 THEN U32_decode(Drop(input, 1))
                ELSE DecodeFail

\* [u8; N] and H512: N raw bytes, no prefix
Fixed_decode(input, n) ==
    IF Len(input) < n THEN DecodeFail
    ELSE DecodeOk(Take(input, n), Drop(input, n))

VecU8_encode(v) == CompactLen_encode(Len(v)) \o v

VecU8_decode_short(input) ==
    LET l == CompactLen_decode(input) IN
    IF ~l.some THEN DecodeFail
    ELSE IF Len(l.rest) < l.val THEN DecodeOk(l.rest, <<>>)
    ELSE DecodeOk(Take(l.rest, l.val), Drop(l.rest, l.val))

VecU8_decode(input) ==
    LET l == CompactLen_decode(input) IN
    IF ~l.some THEN DecodeFail
    ELSE IF Len(l.rest) < l.val THEN DecodeFail
    ELSE DecodeOk(Take(l.rest, l.val), Drop(l.rest, l.val))

RECURSIVE U32s_encode(_)
U32s_encode(v) ==
    IF v = <<>> THEN <<>> ELSE U32_encode(Head(v)) \o U32s_encode(Tail(v))

VecU32_encode(v) == CompactLen_encode(Len(v)) \o U32s_encode(v)

RECURSIVE U32s_decode(_, _, _)
U32s_decode(input, n, acc) ==
    IF n = 0 THEN DecodeOk(acc, input)
    ELSE LET r == U32_decode(input) IN
         IF ~r.some THEN DecodeFail
         ELSE U32s_decode(r.rest, n - 1, Append(acc, r.val))

VecU32_decode(input) ==
    LET l == CompactLen_decode(input) IN
    IF ~l.some THEN DecodeFail
    ELSE U32s_decode(l.rest, l.val, <<>>)

---------------------------------------------------------------------------
(* DigestItemType: the wire discriminant, derive(Encode, Decode) on a      *)
(* fieldless enum: one byte holding the explicit discriminant              *)

TagOther == 0
TagAuthoritiesChange == 1
TagChangesTrieRoot == 2
TagConsensus == 4
TagSeal == 5
TagPreRuntime == 6

DigestItemTypes ==
    {TagOther, TagAuthoritiesChange, TagChangesTrieRoot, TagConsensus,
     TagSeal, TagPreRuntime}

DigestItemType_encode_u32(t) == U32_encode(t)

DigestItemType_encode(t) == <<t>>

DigestItemType_decode_lenient(input) ==
    IF Len(input) < 1 THEN DecodeFail
    ELSE IF input[1] \in DigestItemTypes THEN DecodeOk(input[1], Drop(input, 1))
    ELSE DecodeOk(TagOther, Drop(input, 1))

DigestItemType_decode(input) ==
    IF Len(input) < 1 THEN DecodeFail
    ELSE IF input[1] \in DigestItemTypes THEN DecodeOk(input[1], Drop(input, 1))
    ELSE DecodeFail

---------------------------------------------------------------------------
(* DigestItem / DigestItemRef values *)

AuthoritiesChange(a) == [type |-> "AuthoritiesChange", authorities |-> a]
ChangesTrieRoot(h) == [type |-> "ChangesTrieRoot", hash |-> h]
Consensus(e, d) == [type |-> "Consensus", engine |-> e, data |-> d]
Seal(e, s) == [type |-> "Seal", engine |-> e, sig |-> s]
PreRuntime(e, d) == [type |-> "PreRuntime", engine |-> e, data |-> d]
Other(d) == [type |-> "Other", data |-> d]

\* DigestItem::dref with the Consensus and PreRuntime arms crossed
dref_crossed(v) ==
    CASE v.type = "AuthoritiesChange" -> AuthoritiesChange(v.authorities)
      [] v.type = "ChangesTrieRoot" -> ChangesTrieRoot(v.hash)
      [] v.type = "Consensus" -> PreRuntime(v.engine, v.data)
      [] v.type = "Seal" -> Seal(v.engine, v.sig)
      [] v.type = "PreRuntime" -> Consensus(v.engine, v.data)
      [] v.type = "Other" -> Other(v.data)

dref(v) ==
    CASE v.type = "AuthoritiesChange" -> AuthoritiesChange(v.authorities)
      [] v.type = "ChangesTrieRoot" -> ChangesTrieRoot(v.hash)
      [] v.type = "Consensus" -> Consensus(v.engine, v.data)
      [] v.type = "Seal" -> Seal(v.engine, v.sig)
      [] v.type = "PreRuntime" -> PreRuntime(v.engine, v.data)
      [] v.type = "Other" -> Other(v.data)

---------------------------------------------------------------------------
(* Accessors *)

DigestItem_as_other(v) ==
    IF v.type = "Other" THEN Some(v.data) ELSE None

DigestItemRef_as_authorities_change(r) ==
    IF r.type = "AuthoritiesChange" THEN Some(r.authorities) ELSE None

DigestItemRef_as_changes_trie_root(r) ==
    IF r.type = "ChangesTrieRoot" THEN Some(r.hash) ELSE None

DigestItemRef_as_pre_runtime_shape(r) ==
    IF r.type \in {"PreRuntime", "Consensus"}
    THEN Some(<<r.engine, r.data>>) ELSE None

DigestItemRef_as_pre_runtime(r) ==
    IF r.type = "PreRuntime" THEN Some(<<r.engine, r.data>>) ELSE None

DigestItem_as_authorities_change(v) ==
    DigestItemRef_as_authorities_change(dref(v))

DigestItem_as_changes_trie_root(v) ==
    DigestItemRef_as_changes_trie_root(dref(v))

DigestItem_as_pre_runtime(v) ==
    DigestItemRef_as_pre_runtime(dref(v))

---------------------------------------------------------------------------
(* Encode *)

DigestItemRef_encode(r) ==
    CASE r.type = "AuthoritiesChange" ->
            DigestItemType_encode(TagAuthoritiesChange)
                \o VecU32_encode(r.authorities)
      [] r.type = "ChangesTrieRoot" ->
            DigestItemType_encode(TagChangesTrieRoot) \o U32_encode(r.hash)
      [] r.type = "Consensus" ->
            DigestItemType_encode(TagConsensus)
                \o (r.engine \o VecU8_encode(r.data))
      [] r.type = "Seal" ->
            DigestItemType_encode(TagSeal) \o (r.engine \o r.sig)
      [] r.type = "PreRuntime" ->
            DigestItemType_encode(TagPreRuntime)
                \o (r.engine \o VecU8_encode(r.data))
      [] r.type = "Other" ->
            DigestItemType_encode(TagOther) \o VecU8_encode(r.data)

DigestItem_encode(v) == DigestItemRef_encode(dref(v))

---------------------------------------------------------------------------
(* Decode *)

\* (ConsensusEngineId, Vec<u8>) as one tuple
EngineData_decode(input) ==
    LET e == Fixed_decode(input, EngineIdWidth) IN
    IF ~e.some THEN DecodeFail
    ELSE LET d == VecU8_decode(e.rest) IN
         IF ~d.some THEN DecodeFail
         ELSE DecodeOk(<<e.val, d.val>>, d.rest)

\* (ConsensusEngineId, SealSignature) as one tuple
EngineSig_decode(input) ==
    LET e == Fixed_decode(input, EngineIdWidth) IN
    IF ~e.some THEN DecodeFail
    ELSE LET s == Fixed_decode(e.rest, SigWidth) IN
         IF ~s.some THEN DecodeFail
         ELSE DecodeOk(<<e.val, s.val>>, s.rest)

DecodePayload(t, input) ==
    CASE t = TagAuthoritiesChange ->
            LET a == VecU32_decode(input) IN
            IF a.some THEN DecodeOk(AuthoritiesChange(a.val), a.rest)
            ELSE DecodeFail
      [] t = TagChangesTrieRoot ->
            LET h == U32_decode(input) IN
            IF h.some THEN DecodeOk(ChangesTrieRoot(h.val), h.rest)
            ELSE DecodeFail
      [] t = TagConsensus ->
            LET vals == EngineData_decode(input) IN
            IF vals.some
            THEN DecodeOk(Consensus(vals.val[1], vals.val[2]), vals.rest)
            ELSE DecodeFail
      [] t = TagSeal ->
            LET vals == EngineSig_decode(input) IN
            IF vals.some
            THEN DecodeOk(Seal(vals.val[1], vals.val[2]), vals.rest)
            ELSE DecodeFail
      [] t = TagPreRuntime ->
            LET vals == EngineData_decode(input) IN
            IF vals.some
            THEN DecodeOk(PreRuntime(vals.val[1], vals.val[2]), vals.rest)
            ELSE DecodeFail
      [] t = TagOther ->
            LET d == VecU8_decode(input) IN
            IF d.some THEN DecodeOk(Other(d.val), d.rest) ELSE DecodeFail

\* decode whose Consensus arm builds a PreRuntime item
DigestItem_decode_crossed(input) ==
    LET item_type == DigestItemType_decode(input) IN
    IF ~item_type.some THEN DecodeFail
    ELSE DecodePayload(IF item_type.val = TagConsensus THEN TagPreRuntime
                       ELSE item_type.val, item_type.rest)

\* decode that reads the whole remaining input as the item
DigestItem_decode_greedy(input) ==
    LET item_type == DigestItemType_decode(input) IN
    IF ~item_type.some THEN DecodeFail
    ELSE LET r == DecodePayload(item_type.val, item_type.rest) IN
         IF r.some THEN DecodeOk(r.val, <<>>) ELSE DecodeFail

DigestItem_decode(input) ==
    LET item_type == DigestItemType_decode(input) IN
    IF ~item_type.some THEN DecodeFail
    ELSE DecodePayload(item_type.val, item_type.rest)

---------------------------------------------------------------------------
(* Digest: derive(Encode, Decode) on struct Digest { logs: Vec<Item> },    *)
(* the vector codec over the item codec                                    *)

RECURSIVE Items_encode(_)
Items_encode(l) ==
    IF l = <<>> THEN <<>>
    ELSE DigestItem_encode(Head(l)) \o Items_encode(Tail(l))

Digest_encode(l) == CompactLen_encode(Len(l)) \o Items_encode(l)

RECURSIVE Items_decode_rev(_, _, _)
Items_decode_rev(input, n, acc) ==
    IF n = 0 THEN DecodeOk(acc, input)
    ELSE LET r == DigestItem_decode(input) IN
         IF ~r.some THEN DecodeFail
         ELSE Items_decode_rev(r.rest, n - 1, <<r.val>> \o acc)

RECURSIVE Items_decode(_, _, _)
Items_decode(input, n, acc) ==
    IF n = 0 THEN DecodeOk(acc, input)
    ELSE LET r == DigestItem_decode(input) IN
         IF ~r.some THEN DecodeFail
         ELSE Items_decode(r.rest, n - 1, Append(acc, r.val))

Digest_decode_rev(input) ==
    LET l == CompactLen_decode(input) IN
    IF ~l.some THEN DecodeFail
    ELSE Items_decode_rev(l.rest, l.val, <<>>)

Digest_decode(input) ==
    LET l == CompactLen_decode(input) IN
    IF ~l.some THEN DecodeFail
    ELSE Items_decode(l.rest, l.val, <<>>)

(* serde::Serialize: an item is the 0x-prefixed lowercase hex of its       *)
(* encoding (a string, here the sequence of its characters); the digest's  *)
(* logs field is the list of these, in order                               *)

HexDigits ==
    <<"0", "1", "2", "3", "4", "5", "6", "7",
      "8", "9", "a", "b", "c", "d", "e", "f">>

RECURSIVE HexOf(_)
HexOf(b) ==
    IF b = <<>> THEN <<>>
    ELSE <<HexDigits[(Head(b) \div 16) + 1], HexDigits[(Head(b) % 16) + 1]>>
             \o HexOf(Tail(b))

RECURSIVE HexOf_swapped(_)
HexOf_swapped(b) ==
    IF b = <<>> THEN <<>>
    ELSE <<HexDigits[(Head(b) % 16) + 1], HexDigits[(Head(b) \div 16) + 1]>>
             \o HexOf_swapped(Tail(b))

DigestItem_serialize_swapped(v) == <<"0", "x">> \o HexOf_swapped(DigestItem_encode(v))

DigestItem_serialize(v) == <<"0", "x">> \o HexOf(DigestItem_encode(v))

Digest_serialize(l) == [i \in 1..Len(l) |-> DigestItem_serialize(l[i])]

(* Vec::push / Vec::pop behind Digest::push / Digest::pop *)

Vec_push(l, x) == Append(l, x)

Vec_pop_front(l) ==
    IF l = <<>> THEN [vec |-> l, out |-> None]
    ELSE [vec |-> Tail(l), out |-> Some(Head(l))]

Vec_pop(l) ==
    IF l = <<>> THEN [vec |-> l, out |-> None]
    ELSE [vec |-> Front(l), out |-> Some(l[Len(l)])]

---------------------------------------------------------------------------
(* Inputs *)

ByteVals == {0, 1, 2, 3, 255}
U32Vals == {0, 1, 4, 2147483647}
EngineIds == {Zeros(EngineIdWidth), <<66, 65, 66, 69>>}
Signatures ==
    {Zeros(SigWidth),
     [i \in 1..SigWidth |-> IF i = SigWidth THEN 7 ELSE 0],
     [i \in 1..SigWidth |-> IF i = 1 THEN 255 ELSE 0]}

\* a byte vector long enough for the two-byte length prefix
LongBytes == Zeros(LongLen)
ByteVecs == BoundedSeqs(ByteVals, MaxBytesLen) \cup {LongBytes}
AuthorityVecs == BoundedSeqs(U32Vals, MaxAuthorities)

Items ==
    {AuthoritiesChange(a) : a \in AuthorityVecs}
    \cup {ChangesTrieRoot(h) : h \in U32Vals}
    \cup {Consensus(e, d) : e \in EngineIds, d \in ByteVecs}
    \cup {Seal(e, s) : e \in EngineIds, s \in Signatures}
    \cup {PreRuntime(e, d) : e \in EngineIds, d \in ByteVecs}
    \cup {Other(d) : d \in ByteVecs}

Suffixes == {<<>>, <<0>>, <<3>>, <<1, 4, 0, 0, 0, 0>>, <<255, 255>>}

RawByteVals == {0, 1, 2, 3, 4, 5, 6, 7}
RawInputs == BoundedSeqs(RawByteVals, MaxRawLen)

\* the items the container is exercised with: the four of the module's
\* test, and the two variants it leaves out
FixtureLogs ==
    <<AuthoritiesChange(<<1>>), ChangesTrieRoot(4), Other(<<1, 2, 3>>),
      Seal(Zeros(EngineIdWidth), Zeros(SigWidth))>>
LogItems ==
    {FixtureLogs[i] : i \in 1..4}
    \cup {Consensus(<<66, 65, 66, 69>>, <<>>),
          PreRuntime(<<66, 65, 66, 69>>, <<1, 2>>)}

NoItem == [type |-> "none"]

---------------------------------------------------------------------------
(* Item-level operations *)

Init ==
    /\ op = "init"
    /\ item = NoItem
    /\ bytes = <<>>
    /\ suffix = <<>>
    /\ res = DecodeFail
    /\ ret = None
    /\ rret = None
    /\ calls = {}
    /\ logs = <<>>

\* DigestItem::encode
Encode(v) ==
    /\ op = "init"
    /\ op' = "encode"
    /\ item' = v
    /\ bytes' = DigestItem_encode(v)
    /\ calls' = {"DigestItem::encode", "DigestItem::dref", "DigestItemRef::encode"}
    /\ suffix' = <<>>
    /\ res' = DecodeFail
    /\ ret' = None
    /\ rret' = None
    /\ UNCHANGED logs

\* DigestItemRef::encode on a view of the item just encoded
RefEncode ==
    /\ op = "encode"
    /\ op' = "ref_encode"
    /\ rret' = DigestItemRef_encode(item)
    /\ calls' = {"DigestItemRef::encode"}
    /\ UNCHANGED <<item, bytes, suffix, res, ret, logs>>

\* DigestItem::decode from a cursor over the encoding followed by s
Decode(s) ==
    /\ op \in {"encode", "ref_encode"}
    /\ op' = "decode"
    /\ suffix' = s
    /\ res' = DigestItem_decode(bytes \o s)
    /\ calls' = {"DigestItem::decode"}
    /\ UNCHANGED <<item, bytes, ret, rret, logs>>

\* DigestItem::decode from the encoding without its last byte
DecodeTruncated ==
    /\ op \in {"encode", "ref_encode"}
    /\ op' = "decode_truncated"
    /\ res' = DigestItem_decode(Front(bytes))
    /\ calls' = {"DigestItem::decode"}
    /\ UNCHANGED <<item, bytes, suffix, ret, rret, logs>>

\* DigestItem::decode from arbitrary input
DecodeRaw(b) ==
    /\ op = "init"
    /\ op' = "decode_raw"
    /\ item' = NoItem
    /\ bytes' = b
    /\ suffix' = <<>>
    /\ res' = DigestItem_decode(b)
    /\ calls' = {"DigestItem::decode"}
    /\ ret' = None
    /\ rret' = None
    /\ UNCHANGED logs

Access(name, v, result, chain) ==
    /\ op = "init"
    /\ op' = name
    /\ item' = v
    /\ ret' = result
    /\ calls' = chain
    /\ bytes' = <<>>
    /\ suffix' = <<>>
    /\ res' = DecodeFail
    /\ rret' = None
    /\ UNCHANGED logs

AsOther(v) ==
    Access("as_other", v, DigestItem_as_other(v), {"DigestItem::as_other"})

AsAuthoritiesChange(v) ==
    Access("as_authorities_change", v, DigestItem_as_authorities_change(v),
           {"DigestItem::as_authorities_change", "DigestItem::dref",
            "DigestItemRef::as_authorities_change"})

AsChangesTrieRoot(v) ==
    Access("as_changes_trie_root", v, DigestItem_as_changes_trie_root(v),
           {"DigestItem::as_changes_trie_root", "DigestItem::dref",
            "DigestItemRef::as_changes_trie_root"})

AsPreRuntime(v) ==
    Access("as_pre_runtime", v, DigestItem_as_pre_runtime(v),
           {"DigestItem::as_pre_runtime", "DigestItem::dref",
            "DigestItemRef::as_pre_runtime"})

RefAccess(owned, name, result, chain) ==
    /\ op = owned
    /\ op' = name
    /\ rret' = result
    /\ calls' = chain
    /\ UNCHANGED <<item, bytes, suffix, res, ret, logs>>

\* the DigestItemRef accessors on a view of the item just accessed
RefAsAuthoritiesChange ==
    RefAccess("as_authorities_change", "ref_as_authorities_change",
              DigestItemRef_as_authorities_change(item),
              {"DigestItemRef::as_authorities_change"})

RefAsChangesTrieRoot ==
    RefAccess("as_changes_trie_root", "ref_as_changes_trie_root",
              DigestItemRef_as_changes_trie_root(item),
              {"DigestItemRef::as_changes_trie_root"})

RefAsPreRuntime ==
    RefAccess("as_pre_runtime", "ref_as_pre_runtime",
              DigestItemRef_as_pre_runtime(item),
              {"DigestItemRef::as_pre_runtime"})

Next ==
    \/ op = "init" /\ \E v \in Items : Encode(v)
    \/ RefEncode
    \/ \E s \in Suffixes : Decode(s)
    \/ DecodeTruncated
    \/ op = "init" /\ \E b \in RawInputs : DecodeRaw(b)
    \/ op = "init" /\ \E v \in Items : AsOther(v)
    \/ op = "init" /\ \E v \in Items : AsAuthoritiesChange(v)
    \/ op = "init" /\ \E v \in Items : AsChangesTrieRoot(v)
    \/ op = "init" /\ \E v \in Items : AsPreRuntime(v)
    \/ RefAsAuthoritiesChange
    \/ RefAsChangesTrieRoot
    \/ RefAsPreRuntime

Spec == Init /\ [][Next]_vars

---------------------------------------------------------------------------
(* Container operations *)

ItemVars == <<item, suffix, rret, calls>>

\* Digest::push
Push(v) ==
    /\ Len(logs) < MaxLogs
    /\ op' = "push"
    /\ item' = v
    /\ logs' = Vec_push(logs, v)
    /\ ret' = None
    /\ bytes' = <<>>
    /\ res' = DecodeFail
    /\ UNCHANGED <<suffix, rret, calls>>

\* Digest::pop
Pop ==
    /\ op' = "pop"
    /\ logs' = Vec_pop(logs).vec
    /\ ret' = Vec_pop(logs).out
    /\ item' = NoItem
    /\ bytes' = <<>>
    /\ res' = DecodeFail
    /\ UNCHANGED <<suffix, rret, calls>>

\* Digest::logs
Logs ==
    /\ op' = "logs"
    /\ ret' = Some(logs)
    /\ item' = NoItem
    /\ bytes' = <<>>
    /\ res' = DecodeFail
    /\ UNCHANGED <<logs, suffix, rret, calls>>

\* Digest::encode
EncodeDigest ==
    /\ op' = "encode_digest"
    /\ bytes' = Digest_encode(logs)
    /\ item' = NoItem
    /\ ret' = None
    /\ res' = DecodeFail
    /\ UNCHANGED <<logs, suffix, rret, calls>>

\* Digest::decode of the bytes just encoded
DecodeDigest ==
    /\ op = "encode_digest"
    /\ op' = "decode_digest"
    /\ res' = Digest_decode(bytes)
    /\ UNCHANGED <<item, bytes, ret, logs, suffix, rret, calls>>

\* serde_json::to_string(&digest): the logs field
SerializeDigest ==
    /\ op' = "serialize_digest"
    /\ ret' = Some(Digest_serialize(logs))
    /\ item' = NoItem
    /\ bytes' = <<>>
    /\ res' = DecodeFail
    /\ UNCHANGED <<logs, suffix, rret, calls>>

NextDigest ==
    \/ \E v \in LogItems : Push(v)
    \/ Pop
    \/ Logs
    \/ EncodeDigest
    \/ DecodeDigest
    \/ SerializeDigest

SpecDigest == Init /\ [][NextDigest]_vars

---------------------------------------------------------------------------
(* Properties *)

\* the tag table of the wire format, by variant
TagTable(type) ==
    CASE type = "Other" -> 0
      [] type = "AuthoritiesChange" -> 1
      [] type = "ChangesTrieRoot" -> 2
      [] type = "Consensus" -> 4
      [] type = "Seal" -> 5
      [] type = "PreRuntime" -> 6

KnownTags == {0, 1, 2, 4, 5, 6}

\* C1: round trip. Decoding the bytes produced by encode(v) succeeds and
\* returns an item equal to v (same variant, same payload).
C1_RoundTrip ==
    (op = "decode" /\ suffix = <<>>) => (res.some /\ res.val = item)

C1_Witness ==
    /\ op = "decode"
    /\ suffix = <<>>
    /\ item = AuthoritiesChange(<<>>)
    /\ res.some
    /\ res.val = item

\* C2 as stated: encode(v) begins with the 4-byte integer tag of v's
\* variant, and the payload bytes start at byte offset 4.
C2_TagFourBytes ==
    op = "encode" =>
        /\ Len(bytes) >= 4
        /\ Take(bytes, 4) = U32_encode(TagTable(item.type))
        /\ DecodePayload(TagTable(item.type), Drop(bytes, 4)) = DecodeOk(item, <<>>)

\* C2 as amended: encode(v) begins with the tag of v's variant as a single
\* byte, and the payload bytes start at byte offset 1.
C2_TagOneByte ==
    op = "encode" =>
        /\ Len(bytes) >= 1
        /\ bytes[1] = TagTable(item.type)
        /\ DecodePayload(TagTable(item.type), Drop(bytes, 1)) = DecodeOk(item, <<>>)

C2_Witness ==
    /\ op = "encode"
    /\ item = Consensus(<<66, 65, 66, 69>>, <<1, 2, 3>>)
    /\ bytes = <<4, 66, 65, 66, 69, 12, 1, 2, 3>>

\* C3 as stated: a buffer whose first 4 bytes, read as an integer, are
\* outside {0,1,2,4,5,6} fails to decode, whatever follows.
C3_UnknownTagFourBytes ==
    (/\ op = "decode_raw"
     /\ Len(bytes) >= 4
     /\ U32_decode(bytes).val \notin KnownTags) => ~res.some

\* C3 as amended: a buffer whose first byte is 3 or any other value outside
\* {0,1,2,4,5,6} fails to decode, whatever bytes follow it.
C3_UnknownTagOneByte ==
    (/\ op = "decode_raw"
     /\ Len(bytes) >= 1
     /\ bytes[1] \notin KnownTags) => ~res.some

C3_Witness ==
    /\ op = "decode_raw"
    /\ bytes = <<3, 0, 0, 0, 0>>
    /\ ~res.some

\* C4: truncation rejection. Decoding encode(v) without its last byte
\* fails, for every variant.
C4_TruncationRejected ==
    op = "decode_truncated" => ~res.some

C4_Witness ==
    /\ op = "decode_truncated"
    /\ item = Other(<<1, 2, 3>>)
    /\ bytes = <<0, 12, 1, 2, 3>>
    /\ ~res.some

\* C5: container order. push appends the item at the end of logs and
\* changes nothing else; pop on a non-empty digest returns the last item
\* and removes only it; pop on an empty digest returns absent and leaves
\* logs empty; logs() is the whole sequence; nothing else changes logs.
C5_ContainerOrder ==
    [][/\ op' = "push" => logs' = logs \o <<item'>>
       /\ (op' = "pop" /\ logs # <<>>) =>
              /\ ret' = Some(logs[Len(logs)])
              /\ logs' = SubSeq(logs, 1, Len(logs) - 1)
       /\ (op' = "pop" /\ logs = <<>>) => (ret' = None /\ logs' = <<>>)
       /\ op' = "logs" => (ret' = Some(logs) /\ logs' = logs)
       /\ op' \notin {"push", "pop"} => logs' = logs]_vars

C5_Witness ==
    /\ op = "pop"
    /\ ret = Some(Other(<<1, 2, 3>>))
    /\ logs = <<ChangesTrieRoot(4), AuthoritiesChange(<<1>>), ChangesTrieRoot(4)>>

\* C6: accessor exclusivity. Each accessor returns the payload iff the item
\* is of its variant, and absent otherwise (so absent on Consensus and Seal).
C6_AccessorExclusive ==
    /\ op = "as_other" =>
          ret = IF item.type = "Other" THEN Some(item.data) ELSE None
    /\ op = "as_authorities_change" =>
          ret = IF item.type = "AuthoritiesChange"
                THEN Some(item.authorities) ELSE None
    /\ op = "as_changes_trie_root" =>
          ret = IF item.type = "ChangesTrieRoot" THEN Some(item.hash) ELSE None
    /\ op = "as_pre_runtime" =>
          ret = IF item.type = "PreRuntime"
                THEN Some(<<item.engine, item.data>>) ELSE None

C6_Witness ==
    /\ op = "as_pre_runtime"
    /\ item = Consensus(<<66, 65, 66, 69>>, <<1, 2>>)
    /\ ret = None

\* C7: the fixture. The four items of the test encode to the stated bytes
\* and the digest serializes them as 0x-hex strings in that order.
C7_Fixture ==
    (op = "serialize_digest" /\ logs = FixtureLogs) =>
        /\ [i \in 1..4 |-> DigestItem_encode(logs[i])] =
              << <<1, 4, 1, 0, 0, 0>>, <<2, 4, 0, 0, 0>>, <<0, 12, 1, 2, 3>>,
                 <<5>> \o Zeros(68) >>
        /\ ret = Some(<<
              <<"0", "x", "0", "1", "0", "4", "0", "1", "0", "0", "0", "0", "0", "0">>,
              <<"0", "x", "0", "2", "0", "4", "0", "0", "0", "0", "0", "0">>,
              <<"0", "x", "0", "0", "0", "c", "0", "1", "0", "2", "0", "3">>,
              <<"0", "x", "0", "5">> \o [i \in 1..136 |-> "0"] >>)

C7_Witness ==
    /\ op = "serialize_digest"
    /\ logs = FixtureLogs
    /\ Len(ret.val) = 4
    /\ Len(ret.val[4]) = 140

RECURSIVE ConcatEncodings(_)
ConcatEncodings(l) ==
    IF l = <<>> THEN <<>>
    ELSE ConcatEncodings(Front(l)) \o DigestItem_encode(l[Len(l)])

\* C8: digest codec. encode(d) is the length prefix of the number of logs
\* followed by the items' encodings in order, and decoding it returns the
\* same logs in the same order.
C8_DigestCodec ==
    /\ op \in {"encode_digest", "decode_digest"} =>
          bytes = <<4 * Len(logs)>> \o ConcatEncodings(logs)
    /\ op = "decode_digest" => res = DecodeOk(logs, <<>>)

C8_Witness ==
    /\ op = "decode_digest"
    /\ logs = <<Other(<<1, 2, 3>>), ChangesTrieRoot(4), Other(<<1, 2, 3>>)>>
    /\ res.some
    /\ res.val = logs

\* C9: self-delimiting items. Decoding from encode(v) ++ s returns v and
\* leaves exactly s unread.
C9_SelfDelimiting ==
    op = "decode" => res = DecodeOk(item, suffix)

C9_Witness ==
    /\ op = "decode"
    /\ item = PreRuntime(Zeros(4), <<255>>)
    /\ suffix = <<1, 4, 0, 0, 0, 0>>
    /\ res.some
    /\ res.rest = suffix

OwnedAccessors ==
    {"as_other", "as_authorities_change", "as_changes_trie_root", "as_pre_runtime"}
TraitAccessors ==
    {"as_authorities_change", "as_changes_trie_root", "as_pre_runtime"}
RefAccessors ==
    {"ref_as_authorities_change", "ref_as_changes_trie_root", "ref_as_pre_runtime"}

\* the owned and the borrowed shape agree on the operations they share
C10_SameResults ==
    /\ op \in {"encode", "ref_encode"} \cup OwnedAccessors \cup RefAccessors =>
          dref(item) = item
    /\ op = "ref_encode" => rret = bytes
    /\ op \in RefAccessors => rret = ret

\* C10 as stated: the projection keeps variant and payload, both shapes give
\* the same results, and every accessor of the owned type and its encode
\* go through the projection.
C10_AllDelegate ==
    /\ C10_SameResults
    /\ op \in {"encode"} \cup OwnedAccessors =>
          /\ "DigestItem::dref" \in calls
          /\ {"DigestItem::" \o op, "DigestItemRef::" \o op} \subseteq calls

\* C10 as amended: the projection keeps variant and payload, both shapes
\* give the same results, and encode and the three trait accessors go
\* through the projection; as_other is implemented on the owned type alone.
C10_TraitDelegates ==
    /\ C10_SameResults
    /\ op \in {"encode"} \cup TraitAccessors =>
          /\ "DigestItem::dref" \in calls
          /\ {"DigestItem::" \o op, "DigestItemRef::" \o op} \subseteq calls
    /\ op = "as_other" => calls = {"DigestItem::as_other"}

C10_Witness ==
    /\ op = "ref_encode"
    /\ item = Consensus(Zeros(4), <<1, 2, 3>>)
    /\ rret = bytes
    /\ rret = <<4, 0, 0, 0, 0, 12, 1, 2, 3>>

===========================================================================
